---- MODULE Spec2Model ----
(***************************************************************************)
(* iNaturalist image downloader (src/inaturalist_downloader.py).          *)
(*                                                                         *)
(* The specifications share the model of download_with_retry:            *)
(*   FetchSpec  direct calls of download_with_retry(url, timeout, M),     *)
(*              each against a script of per-attempt outcomes of          *)
(*              requests.get;                                             *)
(*   Spec       the program: the UI thread (download_images,              *)
(*              cancel_download, the root.after callbacks) and the        *)
(*              worker thread download(), which calls download_with_retry *)
(*              with the default max_retries = MAX_RETRIES;               *)
(*   FlagSpec   the program with quick fetches, and a record of the       *)
(*              cancel flag at the start requests;                        *)
(*   NumberingSpec  the scan of the destination directory;                *)
(*   ExtensionSpec  calls of get_file_extension;                          *)
(*   RunSpec    download_images with its pre-flight checks and the worker *)
(*              against a scenario: file system, CSV, answers of the      *)
(*              fetches and writes, the click on Cancel;                  *)
(*   LiveSpec   the program with fairness for the worker thread and the   *)
(*              event loop.                                               *)
(***************************************************************************)
EXTENDS Integers, Sequences, FiniteSets, TLC

\* ------------------------------------------------------------- constants
REQUEST_TIMEOUT == 30
MAX_RETRIES == 3
RETRY_DELAY == 2
\* len(img_data) < 100 is rejected (line 260)
MIN_CONTENT_SIZE == 100

\* ---------------------------------------------------------------- bounds
\* largest max_retries argument of a direct call
MaxAttemptsArg == 3
\* largest number of valid URLs of a run
MaxItems == 2
\* number of start requests that are accepted
MaxRuns == 2

VARIABLES
    download_cancelled,     \* global flag (line 17)
    download_in_progress,   \* global flag (line 18)
    ui_queue,               \* callbacks scheduled with root.after(0, ...)
    notice,                 \* message box of the last start request
    summaries,              \* summaries emitted by the worker of the last run (history)
    files,                  \* the image_N.* files of the directory: N -> payload length
    names,                  \* the names of those files: N -> name
    runs,                   \* accepted start requests so far (history)
    workers,                \* threads started so far (history)
    finished,               \* threads that have ended (history)
    valid_urls,             \* closure of download(): the URLs of the run
    starting_num,           \* closure of download(): first image number
    pc,                     \* position of the worker / of the direct call
    idx,                    \* download(): loop index
    successful,             \* download(): counter
    failed,                 \* download(): counter
    failed_urls,            \* download(): list of (url, message)
    max_retries,            \* download_with_retry: argument
    attempt,                \* download_with_retry: loop variable (0-based)
    last_exception,         \* download_with_retry: local
    result,                 \* download_with_retry: what the call ended with
    script,                 \* FetchSpec: outcome of the i-th requests.get
    attempts_log,           \* outcomes of the requests.get calls of this call (history)
    sleeps,                 \* time.sleep durations of this call (history)
    cancel_at,              \* where the worker was when the flag was set (history)
    fetch_calls,            \* download_with_retry calls of the run (history)
    gets_after_cancel,      \* requests.get calls made while the flag is set (history)
    items_log,              \* (url, img_num) of the items the run has taken up (history)
    progress_log,           \* values the run has set the progress bar to (history)
    total_size,             \* download(): bytes of the payloads that passed the size check
    total_time,             \* download(): seconds of the fetches of those payloads
    elapsed_total_time,     \* download(): seconds since start_time at the last progress update
    mean_speed,             \* value handed to mean_speed_label, a fraction (history)
    remaining_time,         \* value the remaining-time text was made from, a fraction (history)
    flag_was_set,           \* the flag was set when the run was accepted (history)
    refused_while_set,      \* a start was refused while the run's flag was set (history)
    call_args,              \* arguments of a call of a pure function
    call_ret                \* what that call returned

vars == <<download_cancelled, download_in_progress, ui_queue, notice, summaries,
          files, names, runs, workers, finished, valid_urls, starting_num, pc, idx,
          successful, failed,
          failed_urls, max_retries, attempt, last_exception, result, script,
          attempts_log, sleeps, cancel_at, fetch_calls, gets_after_cancel,
          items_log, progress_log, total_size, total_time, elapsed_total_time,
          mean_speed, remaining_time, flag_was_set, refused_while_set, call_args,
          call_ret>>

uiVars == <<download_cancelled, download_in_progress, ui_queue, notice, summaries,
            runs, workers, finished, valid_urls, starting_num, cancel_at>>
batchVars == <<files, names, idx, successful, failed, failed_urls>>
fetchVars == <<max_retries, attempt, last_exception, result, attempts_log, sleeps>>
histVars == <<items_log, progress_log>>
timeVars == <<total_size, total_time, elapsed_total_time, mean_speed, remaining_time>>
flagVars == <<flag_was_set, refused_while_set>>
pureVars == <<call_args, call_ret>>

\* ------------------------------------------------- outcomes of requests.get
\* One requests.get either raises Timeout, raises another RequestException
\* (connection error), or returns a response with a status and a payload.
Outcome(kind, status, len) == [kind |-> kind, status |-> status, len |-> len]
TimeoutOutcome == Outcome("Timeout", 0, 0)
ConnectionOutcome == Outcome("ConnectionError", 0, 0)
Response(status, len) == Outcome("Response", status, len)

\* the outcomes a direct call is scripted with
FetchOutcomes ==
    {TimeoutOutcome, ConnectionOutcome}
    \cup {Response(s, 0) : s \in {399, 400, 404, 499, 500, 599}}
    \cup {Response(200, 150)}

\* the outcomes a requests.get of the worker draws from
BatchOutcomes ==
    {TimeoutOutcome}
    \cup {Response(404, 0)}
    \cup {Response(200, n) : n \in {0, 99, 100}}

Last(q) == q[Len(q)]

\* A quotient of the program is kept as a fraction <<numerator, denominator>>
\* in lowest terms; the rounding of the float division is left out.
RECURSIVE Gcd(_, _)
Gcd(a, b) == IF b = 0 THEN a ELSE Gcd(b, a % b)
Frac(n, d) == IF n = 0 THEN <<0, 1>> ELSE <<n \div Gcd(n, d), d \div Gcd(n, d)>>
Times(q, k) == Frac(q[1] * k, q[2])
Zero == <<0, 1>>
\* the label text before the first estimate (line 228)
Estimating == <<>>

RECURSIVE SeqsOf(_, _)
SeqsOf(S, n) ==
    IF n = 0 THEN {<<>>}
    ELSE {Append(s, x) : s \in SeqsOf(S, n - 1), x \in S}

\* ------------------------------------------------------ download_with_retry
NoException == [kind |-> "None", status |-> 0]
NoResult == [kind |-> "none", status |-> 0, len |-> 0, after |-> 0, cause |-> NoException]

\* response.raise_for_status(): raises HTTPError for 4xx/5xx
RaisesForStatus(status) == status >= 400 /\ status < 600

ClientErrorUpTo500(status) == status <= 500
\* line 73: client errors are re-raised, not retried
IsClientError(status) == status < 500

\* lines 70, 75, 77: the cause recorded for a retryable failure
CauseOf(o) ==
    IF o.kind = "Timeout" THEN [kind |-> "Timeout", status |-> REQUEST_TIMEOUT]
    ELSE IF o.kind = "Response" THEN [kind |-> "HTTP", status |-> o.status]
    ELSE [kind |-> "RequestException", status |-> 0]

KeepFirstCause(last, o) == IF last = NoException THEN CauseOf(o) ELSE last
\* last_exception is overwritten by every retryable failure
NextLastException(last, o) == CauseOf(o)

SleepAfterEveryAttempt(a, m) == TRUE
\* line 79: no sleep after the last attempt
ShouldSleep(a, m) == a < m - 1

ConstantDelay(a) == RETRY_DELAY
\* line 80: RETRY_DELAY * (attempt + 1)
BackoffDelay(a) == RETRY_DELAY * (a + 1)

RangeOneMore(a, m) == a + 1 < m + 1
RangeOneLess(a, m) == a + 1 < m - 1
\* line 64: for attempt in range(max_retries)
HasNextAttempt(a, m) == a + 1 < m

ReturnedResponse(o) ==
    [kind |-> "response", status |-> o.status, len |-> o.len, after |-> 0,
     cause |-> NoException]
RaisedHTTPError(o) ==
    [kind |-> "HTTPError", status |-> o.status, len |-> 0, after |-> 0,
     cause |-> NoException]
\* line 82: "Failed after {max_retries} attempts: {last_exception}"
RaisedExhausted(m, last) ==
    [kind |-> "Exhausted", status |-> 0, len |-> 0, after |-> m, cause |-> last]

\* entry of download_with_retry (lines 60-62)
EnterFetch(m) ==
    /\ max_retries' = m
    /\ attempt' = 0
    /\ last_exception' = NoException
    /\ result' = NoResult
    /\ attempts_log' = <<>>
    /\ sleeps' = <<>>

\* end of one loop iteration: the next attempt, or line 82
LoopNext(last) ==
    IF HasNextAttempt(attempt, max_retries)
    THEN /\ attempt' = attempt + 1
         /\ pc' = "get"
         /\ result' = result
    ELSE /\ attempt' = attempt
         /\ pc' = "fetched"
         /\ result' = RaisedExhausted(max_retries, last)

\* one iteration of lines 64-77 with the outcome o of requests.get
Attempt(o) ==
    /\ pc = "get"
    /\ attempts_log' = Append(attempts_log, o)
    /\ gets_after_cancel' =
         IF download_cancelled THEN gets_after_cancel + 1 ELSE gets_after_cancel
    /\ \/ /\ o.kind = "Response"
          /\ ~RaisesForStatus(o.status)
          /\ result' = ReturnedResponse(o)
          /\ pc' = "fetched"
          /\ UNCHANGED <<attempt, last_exception, sleeps>>
       \/ /\ o.kind = "Response"
          /\ RaisesForStatus(o.status)
          /\ IsClientError(o.status)
          /\ result' = RaisedHTTPError(o)
          /\ pc' = "fetched"
          /\ UNCHANGED <<attempt, last_exception, sleeps>>
       \/ /\ \/ o.kind # "Response"
             \/ RaisesForStatus(o.status) /\ ~IsClientError(o.status)
          /\ last_exception' = NextLastException(last_exception, o)
          /\ IF ShouldSleep(attempt, max_retries)
             THEN /\ pc' = "backoff"
                  /\ UNCHANGED <<attempt, result>>
             ELSE LoopNext(last_exception')
          /\ UNCHANGED sleeps
    /\ UNCHANGED <<max_retries, script, fetch_calls>>
    /\ UNCHANGED <<download_cancelled, download_in_progress, ui_queue, notice,
                   summaries, runs, workers, finished, valid_urls, starting_num,
                   cancel_at>>
    /\ UNCHANGED batchVars
    /\ UNCHANGED timeVars
    /\ UNCHANGED histVars
    /\ UNCHANGED pureVars
    /\ UNCHANGED flagVars

\* line 80: time.sleep(RETRY_DELAY * (attempt + 1))
Backoff ==
    /\ pc = "backoff"
    /\ sleeps' = Append(sleeps, BackoffDelay(attempt))
    /\ LoopNext(last_exception)
    /\ UNCHANGED <<max_retries, last_exception, attempts_log, script, fetch_calls,
                   gets_after_cancel>>
    /\ UNCHANGED uiVars
    /\ UNCHANGED batchVars
    /\ UNCHANGED timeVars
    /\ UNCHANGED histVars
    /\ UNCHANGED pureVars
    /\ UNCHANGED flagVars

\* ---------------------------------------------------------------- FetchSpec
\* a direct call download_with_retry(url, timeout, m) against a script
DirectCall ==
    /\ pc = "nocall"
    /\ \E m \in 1..MaxAttemptsArg :
         /\ EnterFetch(m)
         /\ script' \in SeqsOf(FetchOutcomes, m)
    /\ pc' = "get"
    /\ fetch_calls' = fetch_calls + 1
    /\ UNCHANGED gets_after_cancel
    /\ UNCHANGED uiVars
    /\ UNCHANGED batchVars
    /\ UNCHANGED timeVars
    /\ UNCHANGED histVars
    /\ UNCHANGED pureVars
    /\ UNCHANGED flagVars

ScriptedAttempt ==
    /\ Len(attempts_log) < Len(script)
    /\ Attempt(script[Len(attempts_log) + 1])

NotCancelled == [k |-> -1, in_flight |-> FALSE]

InitCommon ==
    /\ download_cancelled = FALSE
    /\ download_in_progress = FALSE
    /\ ui_queue = <<>>
    /\ notice = "none"
    /\ summaries = <<>>
    /\ runs = 0
    /\ workers = 0
    /\ finished = 0
    /\ valid_urls = <<>>
    /\ starting_num = 0
    /\ idx = 0
    /\ successful = 0
    /\ failed = 0
    /\ failed_urls = <<>>
    /\ max_retries = MAX_RETRIES
    /\ attempt = 0
    /\ last_exception = NoException
    /\ result = NoResult
    /\ script = <<>>
    /\ attempts_log = <<>>
    /\ sleeps = <<>>
    /\ cancel_at = NotCancelled
    /\ fetch_calls = 0
    /\ gets_after_cancel = 0
    /\ items_log = <<>>
    /\ progress_log = <<>>
    /\ total_size = 0
    /\ total_time = 0
    /\ elapsed_total_time = 0
    /\ mean_speed = Zero
    /\ remaining_time = Estimating
    /\ flag_was_set = FALSE
    /\ refused_while_set = FALSE

NoCall == <<>>

FetchInit ==
    /\ InitCommon
    /\ files = <<>>
    /\ names = <<>>
    /\ call_args = NoCall
    /\ call_ret = NoCall
    /\ pc = "nocall"

FetchNext == DirectCall \/ ScriptedAttempt \/ Backoff

FetchSpec == FetchInit /\ [][FetchNext]_vars

\* ------------------------------------------------------------- file names
\* A text (file name, URL, header value) is a sequence of one-character
\* strings.
Digits == <<"0", "1", "2", "3", "4", "5", "6", "7", "8", "9">>
LowerLetters == <<"a", "b", "c", "d", "e", "f", "g", "h", "i", "j", "k", "l", "m", "n", "o", "p", "q", "r", "s", "t", "u", "v", "w", "x", "y", "z">>
UpperLetters == <<"A", "B", "C", "D", "E", "F", "G", "H", "I", "J", "K", "L", "M", "N", "O", "P", "Q", "R", "S", "T", "U", "V", "W", "X", "Y", "Z">>
Range(f) == {f[i] : i \in DOMAIN f}

\* line 275: f"image_{img_num}{extension}"
RECURSIVE Decimal(_)
Decimal(n) == IF n < 10 THEN <<Digits[n + 1]>> ELSE Decimal(n \div 10) \o <<Digits[(n % 10) + 1]>>
ImagePrefix == <<"i", "m", "a", "g", "e", "_">>
NameWithoutDot(img_num, extension) == ImagePrefix \o Decimal(img_num) \o Tail(extension)
ImgName(img_num, extension) == ImagePrefix \o Decimal(img_num) \o extension

\* line 48: the extension when neither the header nor the URL names one
DefaultExtension == <<".", "j", "p", "g">>

\* --------------------------------------------------------------- the program
\* the URLs of the CSV: the n-th valid URL
Url(n) == n
UrlsOf(n) == [i \in 1..n |-> Url(i)]

Max(S) == IF S = {} THEN 0 ELSE CHOOSE x \in S : \A y \in S : y <= x

CountPlusOne(fs) == Cardinality(DOMAIN fs) + 1
\* lines 208-217: one more than the largest number of an image_N.* file
StartingNum(fs) == Max(DOMAIN fs) + 1

\* messages of the failures that download_with_retry does not raise
ValueErrorTooSmall ==
    [kind |-> "ValueError", status |-> 0, len |-> 0, after |-> 0, cause |-> NoException]
WriteError ==
    [kind |-> "OSError", status |-> 0, len |-> 0, after |-> 0, cause |-> NoException]

AcceptedAlways(in_progress) == FALSE
\* lines 151-153: a start request is refused while a download is in progress
StartRefused(in_progress) == in_progress

FlagReset(flag) == FALSE
\* line 153: the return comes before the flag is touched (line 220)
FlagAfterReturn(flag) == flag

\* download_images, lines 151-153: the warning, and nothing else
Refuse ==
    /\ StartRefused(download_in_progress)
    /\ notice' = "warning"
    /\ download_cancelled' = FlagAfterReturn(download_cancelled)
    /\ UNCHANGED <<download_in_progress, ui_queue, summaries, runs,
                   workers, finished, valid_urls, starting_num, cancel_at>>
    /\ UNCHANGED <<pc, script, fetch_calls, gets_after_cancel>>
    /\ UNCHANGED batchVars
    /\ UNCHANGED timeVars
    /\ UNCHANGED fetchVars
    /\ UNCHANGED histVars
    /\ UNCHANGED pureVars

StartRejected ==
    /\ Refuse
    /\ UNCHANGED flagVars

\* download_images, lines 155-206: a pre-flight check fails
StartPreflightFails ==
    /\ ~StartRefused(download_in_progress)
    /\ notice' = "error"
    /\ UNCHANGED <<download_cancelled, download_in_progress, ui_queue, summaries, runs,
                   workers, finished, valid_urls, starting_num, cancel_at>>
    /\ UNCHANGED <<pc, script, fetch_calls, gets_after_cancel>>
    /\ UNCHANGED batchVars
    /\ UNCHANGED timeVars
    /\ UNCHANGED fetchVars
    /\ UNCHANGED histVars
    /\ UNCHANGED pureVars
    /\ UNCHANGED flagVars

FlagKept(flag) == flag
\* line 220: download_cancelled = False
FlagAtStart(flag) == FALSE

\* download_images, lines 208-317, with the valid URLs urls: the run is
\* accepted and its worker thread started (lines 235-240 are the worker's
\* first statements)
Accept(urls) ==
    /\ valid_urls' = urls
    /\ starting_num' = StartingNum(files)
    /\ download_cancelled' = FlagAtStart(download_cancelled)
    /\ download_in_progress' = TRUE
    /\ notice' = "none"
    /\ runs' = runs + 1
    /\ workers' = workers + 1
    /\ pc' = "poll"
    /\ idx' = 0
    /\ successful' = 0
    /\ failed' = 0
    /\ failed_urls' = <<>>
    /\ cancel_at' = NotCancelled
    /\ fetch_calls' = 0
    /\ gets_after_cancel' = 0
    /\ summaries' = <<>>
    /\ items_log' = <<>>
    /\ progress_log' = <<>>
    /\ total_size' = 0
    /\ total_time' = 0
    /\ elapsed_total_time' = 0
    /\ mean_speed' = Zero
    /\ remaining_time' = Estimating
    /\ UNCHANGED <<ui_queue, finished, files, names, script>>
    /\ UNCHANGED fetchVars

\* download_images, lines 155-317, with n valid URLs
StartAccepted ==
    /\ ~StartRefused(download_in_progress)
    /\ runs < MaxRuns
    /\ \E n \in 1..MaxItems : Accept(UrlsOf(n))
    /\ UNCHANGED flagVars
    /\ UNCHANGED pureVars

\* the worker's position: the number of the item in flight (1-based), or the
\* number of items done when the worker is between two items
WorkerAt ==
    IF pc \in {"get", "backoff", "fetched"} THEN [k |-> idx + 1, in_flight |-> TRUE]
    ELSE IF pc = "poll" THEN [k |-> idx, in_flight |-> FALSE]
    ELSE NotCancelled

\* cancel_download, lines 123-128
CancelRequest ==
    /\ download_cancelled' = TRUE
    /\ cancel_at' = IF download_cancelled THEN cancel_at ELSE WorkerAt
    /\ UNCHANGED <<download_in_progress, ui_queue, notice, summaries, runs, workers,
                   finished, valid_urls, starting_num>>
    /\ UNCHANGED <<pc, script, fetch_calls, gets_after_cancel>>
    /\ UNCHANGED batchVars
    /\ UNCHANGED timeVars
    /\ UNCHANGED fetchVars
    /\ UNCHANGED histVars
    /\ UNCHANGED pureVars
    /\ UNCHANGED flagVars

GuardKept(in_progress) == in_progress
\* line 135: reset() sets download_in_progress = False
GuardAfterReset(in_progress) == FALSE

\* the Tk event loop runs the oldest root.after callback: the summary box
\* (lines 113-119) or reset (lines 133-142)
RunCallback ==
    /\ ui_queue # <<>>
    /\ ui_queue' = Tail(ui_queue)
    /\ download_in_progress' =
         IF Head(ui_queue).kind = "reset" THEN GuardAfterReset(download_in_progress)
         ELSE download_in_progress
    /\ UNCHANGED <<download_cancelled, notice, summaries, runs, workers, finished,
                   valid_urls, starting_num, cancel_at>>
    /\ UNCHANGED <<pc, script, fetch_calls, gets_after_cancel>>
    /\ UNCHANGED batchVars
    /\ UNCHANGED timeVars
    /\ UNCHANGED fetchVars
    /\ UNCHANGED histVars
    /\ UNCHANGED pureVars
    /\ UNCHANGED flagVars

NumberOfSuccesses(start, i) == start + successful
SameNumber(start, i) == start
NumberAfterRuns(start, i) == start + i + finished
\* line 248: img_num = starting_num + idx
ImgNum(start, i) == start + i

SeesNoCancel(flag) == FALSE
\* line 244: the worker's read of the flag
SeesCancel(flag) == flag

\* the top of one loop iteration, lines 242-254: the loop ends, or the flag
\* is seen, or download_with_retry(url) is entered
Poll ==
    /\ pc = "poll"
    /\ IF idx >= Len(valid_urls) \/ SeesCancel(download_cancelled)
       THEN /\ pc' = "summary"
            /\ UNCHANGED fetchVars
            /\ UNCHANGED <<fetch_calls, items_log>>
       ELSE /\ pc' = "get"
            /\ items_log' = Append(items_log,
                    [url |-> valid_urls[idx + 1], num |-> ImgNum(starting_num, idx)])
            /\ EnterFetch(MAX_RETRIES)
            /\ fetch_calls' = fetch_calls + 1
    /\ UNCHANGED <<script, gets_after_cancel, progress_log>>
    /\ UNCHANGED uiVars
    /\ UNCHANGED batchVars
    /\ UNCHANGED timeVars
    /\ UNCHANGED pureVars
    /\ UNCHANGED flagVars

WorkerAttempt == \E o \in BatchOutcomes : Attempt(o)

AcceptsAnyLength(n) == TRUE
AcceptsAbove(n) == n > MIN_CONTENT_SIZE
\* line 260: len(img_data) < 100 raises ValueError
Accepts(n) == ~(n < MIN_CONTENT_SIZE)

\* the except branch, lines 281-285
ItemFailed(msg) ==
    /\ failed' = failed + 1
    /\ failed_urls' = Append(failed_urls, [url |-> valid_urls[idx + 1], msg |-> msg])
    /\ UNCHANGED <<successful, files, names>>

\* the ways lines 276-277 can end: the payload is written; open() raises and
\* there is no file; open() has created the file and write() raises, which
\* leaves the file without content
WriteOutcomes == {"ok", "open raises", "write raises"}

SpeedWithoutGuard(size, time) == Frac(size * 8, time * 1000000)
SpeedInMegabytes(size, time) == IF time > 0 THEN Frac(size, time * 1000000) ELSE Zero
\* line 268: (total_size * 8) / (total_time * 1_000_000) if total_time > 0 else 0
MeanSpeed(size, time) == IF time > 0 THEN Frac(size * 8, time * 1000000) ELSE Zero

RemainingOverTotal(elapsed, progress, total) == Times(Frac(elapsed, total), total - progress)
RemainingWithCurrent(elapsed, progress, total) ==
    Times(Frac(elapsed, progress), total - progress + 1)
\* lines 296-298: avg_time_per_image * remaining
RemainingTime(elapsed, progress, total) ==
    Times(Frac(elapsed, progress), total - progress)

ProgressIsIndex(i) == i
ProgressCountsSuccesses(i) == successful'
\* line 288: progress = idx + 1
Progress(i) == i + 1

AbortOnFailure(i, ok) == IF ok THEN i + 1 ELSE Len(valid_urls)
RetryFailedItem(i, ok) == IF ok THEN i + 1 ELSE i
\* line 242: the for loop goes on to the next URL whatever the outcome was
NextIndex(i, ok) == i + 1

\* the seconds one download_with_retry call of the worker takes (lines 251-257)
ItemSeconds == 8

\* the rest of the iteration after download_with_retry, lines 255-303;
\* elapsed_time is what line 257 measured, extension what line 273 returned,
\* write tells how lines 276-277 end
ProcessWith(write, elapsed_time, extension) ==
    /\ pc = "fetched"
    /\ LET img_num == Last(items_log).num IN
       \/ /\ result.kind # "response"
          /\ ItemFailed(result)
          /\ UNCHANGED <<total_size, total_time, mean_speed>>
       \/ /\ result.kind = "response"
          /\ ~Accepts(result.len)
          /\ ItemFailed(ValueErrorTooSmall)
          /\ UNCHANGED <<total_size, total_time, mean_speed>>
       \/ /\ result.kind = "response"
          /\ Accepts(result.len)
          /\ total_size' = total_size + result.len
          /\ total_time' = total_time + elapsed_time
          /\ mean_speed' = MeanSpeed(total_size', total_time')
          /\ IF write = "open raises"
             THEN ItemFailed(WriteError)
             ELSE /\ files' = [n \in DOMAIN files \cup {img_num} |->
                                   IF n # img_num THEN files[n]
                                   ELSE IF write = "ok" THEN result.len ELSE 0]
                  /\ names' = [n \in DOMAIN names \cup {img_num} |->
                                   IF n = img_num THEN ImgName(img_num, extension)
                                   ELSE names[n]]
                  /\ IF write = "ok"
                     THEN /\ successful' = successful + 1
                          /\ UNCHANGED <<failed, failed_urls>>
                     ELSE /\ failed' = failed + 1
                          /\ failed_urls' = Append(failed_urls,
                                 [url |-> valid_urls[idx + 1], msg |-> WriteError])
                          /\ UNCHANGED successful
    /\ idx' = NextIndex(idx, failed' = failed)
    /\ progress_log' = Append(progress_log, Progress(idx))
    /\ elapsed_total_time' = elapsed_total_time + elapsed_time
    /\ remaining_time' =
         IF Progress(idx) > 0
         THEN RemainingTime(elapsed_total_time', Progress(idx), Len(valid_urls))
         ELSE remaining_time
    /\ pc' = "poll"
    /\ UNCHANGED <<script, fetch_calls, gets_after_cancel, items_log>>
    /\ UNCHANGED uiVars
    /\ UNCHANGED fetchVars
    /\ UNCHANGED pureVars
    /\ UNCHANGED flagVars

\* the worker of the program: every item takes ItemSeconds, no response has
\* a Content-Type and no URL names an extension, the file is written or
\* open() raises
Process ==
    \E write \in WriteOutcomes \ {"write raises"} : ProcessWith(write, ItemSeconds, DefaultExtension)

SummaryWithoutFailures ==
    [kind |-> "show", cancelled |-> download_cancelled, successful |-> successful,
     failed |-> 0, remaining |-> Len(valid_urls) - successful - failed,
     first_failure |-> <<>>]
\* lines 306-311
Summary ==
    [kind |-> "show",
     cancelled |-> download_cancelled,
     successful |-> successful,
     failed |-> failed,
     remaining |-> Len(valid_urls) - successful - failed,
     first_failure |->
        IF ~download_cancelled /\ failed > 0 THEN <<failed_urls[1]>> ELSE <<>>]
ResetCallback ==
    [kind |-> "reset", cancelled |-> FALSE, successful |-> 0, failed |-> 0,
     remaining |-> 0, first_failure |-> <<>>]

\* lines 305-313: the summary is built and handed to the event loop
Summarize ==
    /\ pc = "summary"
    /\ summaries' = Append(summaries, Summary)
    /\ ui_queue' = Append(ui_queue, Summary)
    /\ pc' = "reset_ui"
    /\ UNCHANGED <<download_cancelled, download_in_progress, notice, runs, workers,
                   finished, valid_urls, starting_num, cancel_at>>
    /\ UNCHANGED <<script, fetch_calls, gets_after_cancel>>
    /\ UNCHANGED batchVars
    /\ UNCHANGED timeVars
    /\ UNCHANGED fetchVars
    /\ UNCHANGED histVars
    /\ UNCHANGED pureVars
    /\ UNCHANGED flagVars

\* line 314: reset_ui() schedules reset; the thread ends and its frames,
\* the locals of download() and of download_with_retry, are gone
ResetUi ==
    /\ pc = "reset_ui"
    /\ ui_queue' = Append(ui_queue, ResetCallback)
    /\ finished' = finished + 1
    /\ pc' = "done"
    /\ idx' = 0
    /\ successful' = 0
    /\ failed' = 0
    /\ failed_urls' = <<>>
    /\ EnterFetch(MAX_RETRIES)
    /\ valid_urls' = <<>>
    /\ starting_num' = 0
    /\ cancel_at' = NotCancelled
    /\ fetch_calls' = 0
    /\ gets_after_cancel' = 0
    /\ items_log' = <<>>
    /\ progress_log' = <<>>
    /\ total_size' = 0
    /\ total_time' = 0
    /\ elapsed_total_time' = 0
    /\ mean_speed' = Zero
    /\ remaining_time' = Estimating
    /\ UNCHANGED <<download_cancelled, download_in_progress, notice, summaries, runs,
                   workers, files, names, script>>
    /\ UNCHANGED flagVars
CallResetUi == ResetUi /\ UNCHANGED pureVars

\* the destination directory at program start: empty, or files left by
\* earlier sessions (numbers with gaps, payloads of 500 bytes)
InitialDirs == {<<>>, [n \in {1, 2, 5} |-> 500]}
InitialExtensions ==
    [n \in {1, 2, 5} |-> IF n = 1 THEN <<".", "j", "p", "g">>
                         ELSE IF n = 2 THEN <<".", "p", "n", "g">>
                         ELSE <<".", "g", "i", "f">>]
InitialNames(fs) == [n \in DOMAIN fs |-> ImgName(n, InitialExtensions[n])]

Init ==
    /\ InitCommon
    /\ files \in InitialDirs
    /\ names = InitialNames(files)
    /\ call_args = NoCall
    /\ call_ret = NoCall
    /\ pc = "idle"

Next ==
    \/ StartRejected
    \/ StartPreflightFails
    \/ StartAccepted
    \/ CancelRequest
    \/ RunCallback
    \/ Poll
    \/ WorkerAttempt
    \/ Backoff
    \/ Process
    \/ Summarize
    \/ CallResetUi

Spec == Init /\ [][Next]_vars

\* ---------------------------------------------------------------- FlagSpec
\* The program with the history of the cancel flag: whether the flag was set
\* when the run was accepted, and whether a start request was refused while
\* the flag of the run was set. A requests.get of the worker returns at once,
\* with a good image or with a 404.
QuickOutcomes == {Response(404, 0), Response(200, 100)}
QuickAttempt == \E o \in QuickOutcomes : Attempt(o)

TrackedStartRejected ==
    /\ Refuse
    /\ refused_while_set' =
         (refused_while_set \/ (download_cancelled /\ pc \in {"poll", "get", "fetched"}))
    /\ UNCHANGED flag_was_set

TrackedStartAccepted ==
    /\ ~StartRefused(download_in_progress)
    /\ runs < MaxRuns
    /\ \E n \in 1..MaxItems : Accept(UrlsOf(n))
    /\ flag_was_set' = download_cancelled
    /\ refused_while_set' = FALSE
    /\ UNCHANGED pureVars

FlagNext ==
    \/ TrackedStartRejected
    \/ TrackedStartAccepted
    \/ CancelRequest
    \/ RunCallback
    \/ Poll
    \/ QuickAttempt
    \/ Process
    \/ Summarize
    \/ CallResetUi

FlagSpec == Init /\ [][FlagNext]_vars

\* ---------------------------------------------------------------- LiveSpec
\* The program under the scheduling that the threads and the event loop
\* give: a worker thread that can take a step takes it (every requests.get
\* call returns or times out, time.sleep returns), and the Tk main loop runs
\* the callbacks that root.after has scheduled. The user is free to start,
\* to cancel or to do nothing.
MaxLiveItems == 2
MaxLiveRuns == 2
LiveOutcomes == {TimeoutOutcome, Response(200, 100)}
LiveAttempt == \E o \in LiveOutcomes : Attempt(o)
LiveStart ==
    /\ ~StartRefused(download_in_progress)
    /\ runs < MaxLiveRuns
    /\ \E n \in 1..MaxLiveItems : Accept(UrlsOf(n))
    /\ UNCHANGED flagVars
    /\ UNCHANGED pureVars
\* the steps of the worker thread
WorkerStep ==
    \/ Poll
    \/ LiveAttempt
    \/ Backoff
    \/ Process
    \/ Summarize
    \/ CallResetUi
LiveNext ==
    \/ LiveStart
    \/ CancelRequest
    \/ RunCallback
    \/ WorkerStep
\* the program is started on an empty directory
LiveInit == Init /\ files = <<>>
LiveSpec ==
    /\ LiveInit
    /\ [][LiveNext]_vars
    /\ WF_vars(WorkerStep)
    /\ WF_vars(RunCallback)

\* ---------------------------------------------------------------------
\* The scan of the destination directory, lines 208-217, on file names.
\* A file name is a sequence of one-character strings.

\* \d and \w of the pattern at line 212, on ASCII
IsDigit(c) == c \in Range(Digits)
IsWord(c) == c \in Range(Digits) \cup Range(LowerLetters) \cup Range(UpperLetters) \cup {"_"}

\* line 214: int(match.group(1))
DigitValue(c) == (CHOOSE i \in DOMAIN Digits : Digits[i] = c) - 1
RECURSIVE IntOf(_)
IntOf(digs) ==
    IF digs = <<>> THEN 0
    ELSE IntOf(SubSeq(digs, 1, Len(digs) - 1)) * 10 + DigitValue(Last(digs))

\* the position after the longest run of digits that starts at position i
RECURSIVE DigitEnd(_, _)
DigitEnd(img, i) ==
    IF i <= Len(img) /\ IsDigit(img[i]) THEN DigitEnd(img, i + 1) ELSE i

MatchAtJpgOnly(img, i) ==
    LET e == DigitEnd(img, i + 6)
    IN  /\ i + 5 <= Len(img)
        /\ SubSeq(img, i, i + 5) = ImagePrefix
        /\ e > i + 6
        /\ e + 3 <= Len(img)
        /\ SubSeq(img, e, e + 3) = <<".", "j", "p", "g">>
\* the pattern image_(\d+)\.\w+ of line 212 tried at position i: the digits
\* are taken greedily, and giving one back never helps, a digit is no dot
MatchAt(img, i) ==
    LET e == DigitEnd(img, i + 6)
    IN  /\ i + 5 <= Len(img)
        /\ SubSeq(img, i, i + 5) = ImagePrefix
        /\ e > i + 6
        /\ e + 1 <= Len(img)
        /\ img[e] = "."
        /\ IsWord(img[e + 1])

\* re.search: the leftmost position where the pattern matches; the result is
\* group(1) in a one-element sequence, or <<>> for None
RECURSIVE Search(_, _)
Search(img, i) ==
    IF i > Len(img) THEN <<>>
    ELSE IF MatchAt(img, i) THEN <<SubSeq(img, i + 6, DigitEnd(img, i + 6) - 1)>>
    ELSE Search(img, i + 1)

\* lines 210-217: the loop over os.listdir and starting_num = max_num + 1
RECURSIVE ScanLoop(_, _)
ScanLoop(existing_images, max_num) ==
    IF existing_images = {} THEN max_num
    ELSE LET img == CHOOSE x \in existing_images : TRUE
             match == Search(img, 1)
             num == IF match # <<>> THEN IntOf(match[1]) ELSE 0
         IN  ScanLoop(existing_images \ {img},
                      IF match # <<>> /\ num > max_num THEN num ELSE max_num)
ScanStartingNum(existing_images) == ScanLoop(existing_images, 0) + 1

\* Directory entries: the name, and how the name was built. "whole" is a
\* name the program writes (line 275) or one with leading zeros, "embedded"
\* has text before image_ or after the extension, "none" has no image
\* number according to the pattern.
MaxListing == 4
Whole(n, zeros, ext) ==
    [name |-> ImagePrefix \o zeros \o Decimal(n) \o ext, kind |-> "whole", n |-> n]
Embedded(before, n, ext, after) ==
    [name |-> before \o ImgName(n, ext) \o after, kind |-> "embedded", n |-> n]
Other(name) == [name |-> name, kind |-> "none", n |-> 0]
EntryPool ==
    { Whole(1, <<>>, <<".", "j", "p", "g">>),
      Whole(2, <<>>, <<".", "p", "n", "g">>),
      Whole(5, <<>>, <<".", "g", "i", "f">>),
      Whole(10, <<>>, <<".", "j", "p", "e", "g">>),
      Whole(7, <<"0", "0">>, <<".", "w", "e", "b", "p">>),
      Embedded(<<"m", "y">>, 12, <<".", "j", "p", "g">>, <<>>),
      Embedded(<<>>, 3, <<".", "j", "p", "g">>, <<".", "b", "a", "k">>),
      Other(<<"n", "o", "t", "e", "s", ".", "t", "x", "t">>),
      Other(<<"i", "m", "a", "g", "e", "_", ".", "j", "p", "g">>),
      Other(<<"i", "m", "a", "g", "e", "_", "a", "b", "c", ".", "j", "p", "g">>),
      Other(<<"i", "m", "a", "g", "e", "_", "1", "2">>),
      Other(<<"I", "m", "a", "g", "e", "_", "1", ".", "j", "p", "g">>),
      Other(<<"i", "m", "a", "g", "e", "_", "4", ".">>),
      Other(<<"p", "h", "o", "t", "o", "_", "1", "0", ".", "j", "p", "g">>),
      Other(<<"i", "m", "a", "g", "e", "_", "1", "_", "2", ".", "j", "p", "g">>) }
Listings == {l \in SUBSET EntryPool : Cardinality(l) <= MaxListing}

\* one scan of one directory listing
ScanDir ==
    /\ pc = "scan"
    /\ call_ret' = <<ScanStartingNum({e.name : e \in call_args})>>
    /\ pc' = "scanned"
    /\ UNCHANGED <<call_args, items_log, progress_log>>
    /\ UNCHANGED flagVars
    /\ UNCHANGED <<download_cancelled, download_in_progress, ui_queue, notice,
                   summaries, runs, workers, finished, valid_urls, starting_num,
                   cancel_at, script, fetch_calls, gets_after_cancel>>
    /\ UNCHANGED batchVars
    /\ UNCHANGED timeVars
    /\ UNCHANGED fetchVars

NumberingInit ==
    /\ InitCommon
    /\ files = <<>>
    /\ names = <<>>
    /\ call_args \in Listings
    /\ call_ret = NoCall
    /\ pc = "scan"
NumberingNext == ScanDir
NumberingSpec == NumberingInit /\ [][NumberingNext]_vars

\* ---------------------------------------------------------------------
\* get_file_extension, lines 21-48, on sequences of one-character strings

\* lines 24-33: content_type_map; the result is the extension in a
\* one-element sequence, or <<>> when main_type is no key
content_type_map(main_type) ==
    IF main_type = <<"i", "m", "a", "g", "e", "/", "j", "p", "e", "g">> THEN <<<<".", "j", "p", "g">>>>
    ELSE IF main_type = <<"i", "m", "a", "g", "e", "/", "j", "p", "g">> THEN <<<<".", "j", "p", "g">>>>
    ELSE IF main_type = <<"i", "m", "a", "g", "e", "/", "p", "n", "g">> THEN <<<<".", "p", "n", "g">>>>
    ELSE IF main_type = <<"i", "m", "a", "g", "e", "/", "g", "i", "f">> THEN <<<<".", "g", "i", "f">>>>
    ELSE IF main_type = <<"i", "m", "a", "g", "e", "/", "w", "e", "b", "p">> THEN <<<<".", "w", "e", "b", "p">>>>
    ELSE IF main_type = <<"i", "m", "a", "g", "e", "/", "b", "m", "p">> THEN <<<<".", "b", "m", "p">>>>
    ELSE IF main_type = <<"i", "m", "a", "g", "e", "/", "t", "i", "f", "f">> THEN <<<<".", "t", "i", "f", "f">>>>
    ELSE IF main_type = <<"i", "m", "a", "g", "e", "/", "s", "v", "g", "+", "x", "m", "l">> THEN <<<<".", "s", "v", "g">>>>
    ELSE <<>>

Whitespace == {" ", "\t"}
SameCase(c) == c
\* str.lower, on ASCII
LowerChar(c) ==
    IF c \in Range(UpperLetters)
    THEN LowerLetters[CHOOSE i \in DOMAIN UpperLetters : UpperLetters[i] = c]
    ELSE c
Lower(str) == [i \in DOMAIN str |-> LowerChar(str[i])]
\* str.strip
RECURSIVE Strip(_)
Strip(str) ==
    IF str = <<>> THEN str
    ELSE IF Head(str) \in Whitespace THEN Strip(Tail(str))
    ELSE IF Last(str) \in Whitespace THEN Strip(SubSeq(str, 1, Len(str) - 1))
    ELSE str
\* str.split(';')[0]
SplitFirst(str) ==
    LET at == {i \in DOMAIN str : str[i] = ";"}
    IN  IF at = {} THEN str
        ELSE SubSeq(str, 1, (CHOOSE i \in at : \A j \in at : i <= j) - 1)
\* line 44: ext in url_lower
Contains(str, sub) ==
    \E i \in 1..(Len(str) - Len(sub) + 1) : SubSeq(str, i, i + Len(sub) - 1) = sub

\* line 43: the list the loop goes through
UrlExtensions == <<<<".", "j", "p", "g">>, <<".", "j", "p", "e", "g">>, <<".", "p", "n", "g">>, <<".", "g", "i", "f">>, <<".", "w", "e", "b", "p">>, <<".", "b", "m", "p">>, <<".", "t", "i", "f", "f">>, <<".", "s", "v", "g">>>>
KeepExtension(ext) == ext
\* line 45: '.jpg' if ext == '.jpeg' else ext
ReturnedExtension(ext) == IF ext = <<".", "j", "p", "e", "g">> THEN <<".", "j", "p", "g">> ELSE ext
\* lines 43-48: the loop from entry k on, and the default
RECURSIVE FromUrl(_, _)
FromUrl(url_lower, k) ==
    IF k > Len(UrlExtensions) THEN <<".", "j", "p", "g">>
    ELSE IF Contains(url_lower, UrlExtensions[k]) THEN ReturnedExtension(UrlExtensions[k])
    ELSE FromUrl(url_lower, k + 1)

get_file_extension(content_type, url) ==
    LET main_type == Lower(Strip(SplitFirst(content_type)))
    IN  IF content_type # <<>> /\ content_type_map(main_type) # <<>>
        THEN content_type_map(main_type)[1]
        ELSE FromUrl(Lower(url), 1)

\* The arguments of a call, with the way they were built: a content type is
\* a base text in lower case, put in one of three letter cases, with or
\* without blanks around it and a parameter after it; a URL is a stem
\* followed by path parts that end in extensions, as it is or in upper case.
UpperChar(c) ==
    IF c \in Range(LowerLetters)
    THEN UpperLetters[CHOOSE i \in DOMAIN LowerLetters : LowerLetters[i] = c]
    ELSE c
Cased(str, case) ==
    IF case = "upper" THEN [i \in DOMAIN str |-> UpperChar(str[i])]
    ELSE IF case = "capital" /\ str # <<>> THEN <<UpperChar(Head(str))>> \o Tail(str)
    ELSE str
ContentTypeBases ==
    {<<"i", "m", "a", "g", "e", "/", "j", "p", "e", "g">>,
     <<"i", "m", "a", "g", "e", "/", "j", "p", "g">>,
     <<"i", "m", "a", "g", "e", "/", "p", "n", "g">>,
     <<"i", "m", "a", "g", "e", "/", "g", "i", "f">>,
     <<"i", "m", "a", "g", "e", "/", "w", "e", "b", "p">>,
     <<"i", "m", "a", "g", "e", "/", "b", "m", "p">>,
     <<"i", "m", "a", "g", "e", "/", "t", "i", "f", "f">>,
     <<"i", "m", "a", "g", "e", "/", "s", "v", "g", "+", "x", "m", "l">>,
     <<"a", "p", "p", "l", "i", "c", "a", "t", "i", "o", "n", "/", "o", "c", "t", "e", "t", "-", "s", "t", "r", "e", "a", "m">>,
     <<"t", "e", "x", "t", "/", "h", "t", "m", "l">>,
     <<"i", "m", "a", "g", "e">>,
     <<>>}
Blanks == {<<>>, <<"\t", " ">>}
Params == {<<>>, <<";", " ", "c", "h", "a", "r", "s", "e", "t", "=", "u", "t", "f", "-", "8">>, <<";">>}
ContentTypeOf(base, case, blank, param) == blank \o Cased(base, case) \o blank \o param
MaxExts == 2
RECURSIVE PathOf(_)
PathOf(exts) ==
    IF exts = <<>> THEN <<>>
    ELSE <<"/", "x">> \o Head(exts) \o PathOf(Tail(exts))
UrlStem == <<"h", "/", "p", "h", "o", "t", "o">>
UrlOf(exts, case) == Cased(UrlStem \o PathOf(exts), case)
\* the call built from these parts
ExtensionCall(base, c1, blank, param, exts, c2) ==
    [content_type |-> ContentTypeOf(base, c1, blank, param),
     url |-> UrlOf(exts, c2),
     base |-> base,
     exts |-> exts]

\* one call of get_file_extension
Resolve ==
    /\ pc = "resolve"
    /\ call_ret' = <<get_file_extension(call_args.content_type, call_args.url)>>
    /\ pc' = "resolved"
    /\ UNCHANGED <<call_args, items_log, progress_log>>
    /\ UNCHANGED flagVars
    /\ UNCHANGED <<download_cancelled, download_in_progress, ui_queue, notice,
                   summaries, runs, workers, finished, valid_urls, starting_num,
                   cancel_at, script, fetch_calls, gets_after_cancel>>
    /\ UNCHANGED batchVars
    /\ UNCHANGED timeVars
    /\ UNCHANGED fetchVars

ExtensionInit ==
    /\ InitCommon
    /\ files = <<>>
    /\ names = <<>>
    /\ \E base \in ContentTypeBases, c1 \in {"lower", "upper", "capital"},
          blank \in Blanks, param \in Params, c2 \in {"lower", "upper"} :
          \E k \in 0..MaxExts :
              \E exts \in SeqsOf(Range(UrlExtensions), k) :
                  call_args = ExtensionCall(base, c1, blank, param, exts, c2)
    /\ call_ret = NoCall
    /\ pc = "resolve"
ExtensionNext == Resolve
ExtensionSpec == ExtensionInit /\ [][ExtensionNext]_vars

\* ----------------------------------------------------------------- RunSpec
\* download_images and its worker against a scenario that is fixed when the
\* behaviour starts (call_args): the state of the file system, the content
\* of the CSV, the answer to the question about skipped entries, and for
\* every valid URL what its fetch does. call_ret collects what the start
\* requests and the runs did; the user may start a second time, in the same
\* directory or after picking an empty one.

\* entries of a column as pandas yields them: NaN for a missing cell
NaN == [kind |-> "nan", text |-> <<>>]
Str(text) == [kind |-> "str", text |-> text]

NotNaOnly(e) == e.kind # "nan"
\* line 192: pd.notna(url) and str(url).strip()
IsValidEntry(e) == e.kind # "nan" /\ Strip(e.text) # <<>>

\* line 192: the list of (i, url), in the order of the column
RECURSIVE ValidFrom(_, _)
ValidFrom(urls, i) ==
    IF i > Len(urls) THEN <<>>
    ELSE (IF IsValidEntry(urls[i]) THEN <<[i |-> i - 1, url |-> urls[i].text]>> ELSE <<>>)
         \o ValidFrom(urls, i + 1)
ValidUrls(urls) == ValidFrom(urls, 1)
\* line 193
SkippedCount(urls) == Len(urls) - Len(ValidUrls(urls))

\* line 177: the column names that are tried, in this order
UrlColumnNames == <<"image_url", "IMAGE_URL", "Image_URL", "url", "URL">>
LastListedColumn(columns) ==
    LET hits == {k \in DOMAIN UrlColumnNames : UrlColumnNames[k] \in columns}
    IN  IF hits = {} THEN ""
        ELSE UrlColumnNames[CHOOSE k \in hits : \A j \in hits : k >= j]
\* lines 176-180: the first of them that is a column, or "" for None
UrlColumn(columns) ==
    LET hits == {k \in DOMAIN UrlColumnNames : UrlColumnNames[k] \in columns}
    IN  IF hits = {} THEN ""
        ELSE UrlColumnNames[CHOOSE k \in hits : \A j \in hits : k <= j]

\* check_disk_space, lines 51-57: True when the free space cannot be read
check_disk_space(disk) == disk # "low"

\* lines 155-206: the check that ends the start request, or "none"
FailedCheck(s) ==
    IF ~s.csv_path \/ ~s.download_path THEN "paths"
    ELSE IF ~s.is_dir THEN "directory"
    ELSE IF ~check_disk_space(s.disk) THEN "disk"
    ELSE IF ~s.readable THEN "csv"
    ELSE IF UrlColumn(DOMAIN s.data) = "" THEN "column"
    ELSE IF ValidUrls(s.data[UrlColumn(DOMAIN s.data)]) = <<>> THEN "no urls"
    ELSE IF SkippedCount(s.data[UrlColumn(DOMAIN s.data)]) > 0 /\ ~s.answer THEN "declined"
    ELSE "none"

\* what one fetch does: the outcomes of its requests.get calls, the
\* Content-Type of the response, the seconds the call takes, and whether the
\* file can be written
Case(outcomes, ctype, seconds, write) ==
    [script |-> outcomes, ctype |-> ctype, seconds |-> seconds, write |-> write]

\* download_images, lines 155-317, on the scenario
DownloadImages ==
    /\ ~StartRefused(download_in_progress)
    /\ Len(call_ret) \in {0, 2}
    /\ LET check == FailedCheck(call_args)
           urls == IF UrlColumn(DOMAIN call_args.data) = "" \/ ~call_args.readable
                   THEN <<>>
                   ELSE call_args.data[UrlColumn(DOMAIN call_args.data)]
           \* skipped_count exists once line 193 is reached
           done == [kind |-> "start", check |-> check, dir |-> files,
                    skipped |-> IF check \in {"no urls", "declined", "none"}
                                THEN <<SkippedCount(urls)>> ELSE <<>>]
       IN  /\ call_ret' = Append(call_ret, done)
           /\ IF check = "none"
              THEN Accept(ValidUrls(urls))
              ELSE /\ notice' = IF check = "declined" THEN "question" ELSE "error"
                   /\ UNCHANGED <<download_cancelled, download_in_progress, ui_queue,
                                  summaries, runs, workers, finished, valid_urls,
                                  starting_num, cancel_at>>
                   /\ UNCHANGED <<pc, script, fetch_calls, gets_after_cancel>>
                   /\ UNCHANGED batchVars
                   /\ UNCHANGED timeVars
                   /\ UNCHANGED fetchVars
                   /\ UNCHANGED histVars
    /\ UNCHANGED call_args
    /\ UNCHANGED flagVars

\* browse_directory, lines 93-96, after the first run: the user picks an
\* empty directory
BrowseDirectory ==
    /\ Len(call_ret) = 2
    /\ pc = "done"
    /\ ~download_in_progress
    /\ files' = <<>>
    /\ names' = <<>>
    /\ UNCHANGED <<idx, successful, failed, failed_urls>>
    /\ UNCHANGED uiVars
    /\ UNCHANGED <<pc, script, fetch_calls, gets_after_cancel>>
    /\ UNCHANGED pureVars
    /\ UNCHANGED timeVars
    /\ UNCHANGED fetchVars
    /\ UNCHANGED histVars
    /\ UNCHANGED flagVars

\* the scenarios: what a fetch can do
MaxColumn == 3
Fetched(len, ctype, seconds) == Case(<<Response(200, len)>>, ctype, seconds, "ok")
ImagePng == <<"i", "m", "a", "g", "e", "/", "p", "n", "g">>
ImageGif == <<"I", "m", "a", "g", "e", "/", "G", "I", "F", ";", "q">>
ItemCases ==
    {Fetched(100, <<>>, 0),
     Fetched(1000000, ImagePng, 8),
     Fetched(99, <<>>, 1),
     Case(<<TimeoutOutcome, Response(200, 100)>>, <<>>, 8, "ok"),
     Case(<<Response(404, 0)>>, <<>>, 1, "ok"),
     Case(<<Response(200, 100)>>, ImageGif, 8, "open raises"),
     Case(<<Response(200, 100)>>, ImagePng, 1, "write raises")}
\* the URL of the k-th row of a CSV without gaps
ItemUrl(k) == <<"h", "/">> \o Decimal(k) \o UrlExtensions[((k - 1) % Len(UrlExtensions)) + 1]
UrlA == <<"h", "/", "a">>
UrlB == <<"h", "/", "b", ".", "P", "N", "G">>
\* what the server does for the two URLs of a CSV with gaps
Served(url) == IF url = UrlA THEN Fetched(1000000, ImageGif, 8)
               ELSE Case(<<Response(404, 0)>>, <<>>, 1, "ok")
Entries == {NaN, Str(<<>>), Str(<<" ", "\t">>), Str(UrlA), Str(UrlB)}

GoodEnv ==
    [csv_path |-> TRUE, download_path |-> TRUE, is_dir |-> TRUE, disk |-> "enough",
     readable |-> TRUE, writable |-> TRUE]
Envs ==
    {GoodEnv,
     [GoodEnv EXCEPT !.csv_path = FALSE],
     [GoodEnv EXCEPT !.download_path = FALSE],
     [GoodEnv EXCEPT !.is_dir = FALSE],
     [GoodEnv EXCEPT !.disk = "low"],
     [GoodEnv EXCEPT !.disk = "unknown"],
     [GoodEnv EXCEPT !.readable = FALSE],
     [GoodEnv EXCEPT !.writable = FALSE]}
ColumnNames == {"image_url", "URL", "notes"}

Scenario(env, data, answer, items, cancel, dir) ==
    [csv_path |-> env.csv_path, download_path |-> env.download_path,
     is_dir |-> env.is_dir, disk |-> env.disk, readable |-> env.readable,
     writable |-> env.writable, data |-> data, answer |-> answer,
     items |-> items, cancel |-> cancel, dir |-> dir]

\* a CSV without gaps whose rows are fetched as the cases say
Plain(items, cancel, dir) ==
    Scenario(GoodEnv, [c \in {"image_url"} |-> [k \in DOMAIN items |-> Str(ItemUrl(k))]],
             TRUE, items, cancel, dir)
\* a CSV with one column, fetched as the server says
Gapped(env, name, column, answer) ==
    Scenario(env, [c \in {name} |-> column], answer,
             [k \in DOMAIN ValidUrls(column) |-> Served(ValidUrls(column)[k].url)],
             0, <<>>)
\* a CSV with two columns of one row each; the server answers as for Gapped
TwoColumns(name1, name2) ==
    LET data == [c \in {name1, name2} |->
                    IF c = name1 THEN <<Str(UrlA)>> ELSE <<Str(UrlB)>>]
        read == IF UrlColumn(DOMAIN data) = "" THEN <<>>
                ELSE ValidUrls(data[UrlColumn(DOMAIN data)])
    IN  Scenario(GoodEnv, data, TRUE, [k \in DOMAIN read |-> Served(read[k].url)],
                 0, <<>>)
\* ten rows of one second each
TenRows == Plain([k \in 1..10 |-> Fetched(100, <<>>, 1)], 0, <<>>)

RunInit ==
    /\ InitCommon
    /\ pc = "idle"
    /\ call_ret = NoCall
    /\ \/ \E n \in 1..MaxItems : \E items \in SeqsOf(ItemCases, n) :
          \E cancel \in 0..n : \E dir \in InitialDirs :
             call_args = Plain(items, cancel, dir)
       \/ \E env \in Envs : \E name \in ColumnNames : \E k \in 0..MaxColumn :
          \E column \in SeqsOf(Entries, k) : \E answer \in BOOLEAN :
             call_args = Gapped(env, name, column, answer)
       \/ \E name1 \in Range(UrlColumnNames) \cup ColumnNames :
          \E name2 \in (Range(UrlColumnNames) \cup ColumnNames) \ {name1} :
             call_args = TwoColumns(name1, name2)
       \/ call_args = TenRows
    /\ files = call_args.dir
    /\ names = InitialNames(files)

\* the click on Cancel comes while the fetch of row call_args.cancel waits
\* for its first answer
CancelDue ==
    /\ pc = "get"
    /\ idx + 1 = call_args.cancel
    /\ attempts_log = <<>>
    /\ ~download_cancelled
RunCancel == CancelDue /\ CancelRequest

\* requests.get answers as the scenario says for this URL
RunAttempt ==
    /\ pc = "get"
    /\ ~CancelDue
    /\ Len(attempts_log) < Len(call_args.items[idx + 1].script)
    /\ Attempt(call_args.items[idx + 1].script[Len(attempts_log) + 1])

\* lines 255-303 with the scenario's Content-Type, seconds and file system
RunProcess ==
    /\ pc = "fetched"
    /\ LET item == call_args.items[idx + 1]
       IN  ProcessWith(IF call_args.writable THEN item.write ELSE "open raises",
                       item.seconds,
                       get_file_extension(item.ctype, valid_urls[idx + 1].url))

\* the end of the worker, line 314; call_ret keeps what the run did
RunResetUi ==
    /\ ResetUi
    /\ call_ret' = Append(call_ret,
            [kind |-> "run", start |-> starting_num, attempted |-> idx,
             files |-> files, names |-> names, summary |-> summaries[1]])
    /\ UNCHANGED call_args

RunNext ==
    \/ DownloadImages
    \/ BrowseDirectory
    \/ RunCancel
    \/ RunCallback
    \/ Poll
    \/ RunAttempt
    \/ Backoff
    \/ RunProcess
    \/ Summarize
    \/ RunResetUi

RunSpec == RunInit /\ [][RunNext]_vars

\* ------------------------------------------------- claims on FetchSpec
\* the classes of outcomes as the specification words them
ClaimRetryable(o) ==
    \/ o.kind \in {"Timeout", "ConnectionError"}
    \/ o.kind = "Response" /\ o.status >= 500
ClaimNonError(o) == o.kind = "Response" /\ o.status < 400
ClaimFatal(o) == o.kind = "Response" /\ o.status >= 400 /\ o.status < 500
AllRetryable(s, k) == \A i \in 1..k : ClaimRetryable(s[i])

\* C1: when the first k < M attempts fail retryably and attempt k+1 returns a
\* non-error response, the call makes exactly k+1 attempts and returns that
\* response.
C1_SuccessAfterRetries ==
    \A k \in 0..(Len(script) - 1) :
        (AllRetryable(script, k) /\ ClaimNonError(script[k + 1]))
        => /\ Len(attempts_log) <= k + 1
           /\ pc = "fetched" <=> Len(attempts_log) = k + 1
           /\ pc = "fetched" =>
                /\ result = ReturnedResponse(script[k + 1])
                /\ attempts_log = SubSeq(script, 1, k + 1)

\* two timeouts, then a 200: success after exactly three attempts
C1_Witness ==
    /\ pc = "fetched"
    /\ script = <<TimeoutOutcome, TimeoutOutcome, Response(200, 150)>>
    /\ Len(attempts_log) = 3
    /\ result.kind = "response"
    /\ result.status = 200

\* C2: a response with status in [400,500) ends the call with a failure at
\* the attempt where it occurs: it is the last attempt, the HTTPError is the
\* result, and no sleep follows it; 499 is fatal and 500 is retried.
C2_ClientErrorIsFatal ==
    /\ \A j \in 1..Len(attempts_log) :
           ClaimFatal(attempts_log[j])
           => /\ j = Len(attempts_log)
              /\ pc = "fetched"
              /\ result = RaisedHTTPError(attempts_log[j])
              /\ Len(sleeps) = j - 1
    /\ (/\ pc = "fetched"
        /\ Len(script) >= 2
        /\ script[1] = Response(500, 0))
       => Len(attempts_log) >= 2

\* a timeout, then a 499: failure at the second attempt, one sleep in all
C2_Witness ==
    /\ pc = "fetched"
    /\ Len(attempts_log) = 2
    /\ attempts_log[1] = TimeoutOutcome
    /\ attempts_log[2] = Response(499, 0)
    /\ result.kind = "HTTPError"
    /\ Len(sleeps) = 1

\* C3: when every attempt fails retryably the call makes exactly max_retries
\* attempts and then raises the failure that names the cause of the last one.
C3_ExhaustedNamesLastCause ==
    /\ Len(attempts_log) <= max_retries
    /\ (pc # "nocall" /\ AllRetryable(script, Len(script)))
       => /\ pc = "fetched" <=> Len(attempts_log) = max_retries
          /\ pc = "fetched" =>
               /\ attempts_log = script
               /\ result = RaisedExhausted(max_retries, CauseOf(script[max_retries]))

\* a timeout, a connection error, then a 500: the message names the 500
C3_Witness ==
    /\ pc = "fetched"
    /\ max_retries = 3
    /\ script = <<TimeoutOutcome, ConnectionOutcome, Response(500, 0)>>
    /\ result.kind = "Exhausted"
    /\ result.after = 3
    /\ result.cause = [kind |-> "HTTP", status |-> 500]

\* C4: the attempt number n = attempt + 1 stays within 1..max_retries;
\* attempt n+1 is entered only after a retryable failure of attempt n < M;
\* a requests.get is made only in the attempting state, once per attempt number,
\* and none after the call has ended.
C4_AttemptInRange ==
    /\ 1 <= attempt + 1
    /\ attempt + 1 <= max_retries
    /\ Len(attempts_log) <= attempt + 1
    /\ pc = "get" => Len(attempts_log) = attempt
    /\ pc \in {"backoff", "fetched"} => Len(attempts_log) = attempt + 1
C4_Step ==
    /\ (pc # "nocall" /\ attempt' # attempt)
       => /\ attempt' = attempt + 1
          /\ pc' = "get"
          /\ attempt + 1 < max_retries
          /\ Len(attempts_log') = attempt + 1
          /\ ClaimRetryable(attempts_log'[attempt + 1])
    /\ attempts_log' # attempts_log
       => \/ pc = "nocall"
          \/ pc = "get" /\ Len(attempts_log') = Len(attempts_log) + 1
    /\ (pc' = "fetched" /\ pc # "fetched")
       => \/ result'.kind \in {"response", "HTTPError"}
          \/ result'.kind = "Exhausted" /\ attempt + 1 = max_retries
C4_StateMachine == [](C4_AttemptInRange) /\ [][C4_Step]_vars

\* attempt 2 has been entered after a retryable failure of attempt 1
C4_Witness ==
    /\ pc = "get"
    /\ attempt = 1
    /\ Len(attempts_log) = 1
    /\ ClaimRetryable(attempts_log[1])
    /\ max_retries >= 2

InItem == pc \in {"get", "backoff", "fetched"}
WorkerActive == pc \in {"poll", "get", "backoff", "fetched", "summary", "reset_ui"}
SmallPayload(o) == ClaimNonError(o) /\ o.len < 100

\* the item that was processed last (number idx) failed with message msg
LastItemFailedWith(msg) ==
    /\ pc = "poll"
    /\ idx > 0
    /\ failed_urls # <<>>
    /\ Last(failed_urls) = [url |-> valid_urls[idx], msg |-> msg]

\* C6, as claimed: an item that ends as TooSmall has had at most one
\* requests.get.
C6_Original ==
    LastItemFailedWith(ValueErrorTooSmall) => Len(attempts_log) <= 1

\* C6, amended: the too-small response is the last requests.get of the item:
\* it ends the single download_with_retry call of the item, only retryable
\* failures come before it, and it is attempt 1 when no failure comes before it.
C6_TooSmallNotRetried ==
    /\ WorkerActive =>
         fetch_calls = IF InItem THEN idx + 1 ELSE idx
    /\ \A j \in 1..Len(attempts_log) :
           SmallPayload(attempts_log[j])
           => /\ j = Len(attempts_log)
              /\ j <= MAX_RETRIES
              /\ AllRetryable(attempts_log, j - 1)
              /\ pc # "get" /\ pc # "backoff"
    /\ (pc = "poll" /\ idx > 0 /\ attempts_log # <<>> /\ SmallPayload(Last(attempts_log)))
       => LastItemFailedWith(ValueErrorTooSmall)

\* two timeouts, then a 200 with an empty payload: TooSmall after 3 attempts
C6_Witness ==
    /\ LastItemFailedWith(ValueErrorTooSmall)
    /\ attempts_log = <<TimeoutOutcome, TimeoutOutcome, Response(200, 0)>>
    /\ fetch_calls = idx

\* C7: a fetched payload is rejected exactly when it is shorter than 100
\* bytes; a rejected payload counts the item as failed, the item gets no
\* second download_with_retry call, and the loop goes on with the next item.
C7_SizeGate ==
    /\ (pc = "poll" /\ idx > 0 /\ result.kind = "response")
       => /\ LastItemFailedWith(ValueErrorTooSmall) <=> result.len < 100
          /\ result.len < 100 =>
               /\ starting_num + idx - 1 \notin DOMAIN files
               /\ successful + failed = idx
          /\ fetch_calls = idx
    /\ WorkerActive => fetch_calls = IF InItem THEN idx + 1 ELSE idx

\* the first item was rejected with 99 bytes and the second is being fetched
C7_Witness ==
    /\ pc = "get"
    /\ idx = 1
    /\ fetch_calls = 2
    /\ failed_urls = <<[url |-> Url(1), msg |-> ValueErrorTooSmall]>>

\* successful 100-byte item: accepted and written
C7_WitnessAccepted ==
    /\ pc = "poll"
    /\ idx = 1
    /\ result = ReturnedResponse(Response(200, 100))
    /\ successful = 1
    /\ files[starting_num] = 100

\* C8: when the flag is set while item k < N is in flight (or between item k
\* and item k+1), item k is completed, no later item is attempted or counted,
\* and the summary reports a cancelled run with successful + failed = k.
C8_CancelStopsAfterItem ==
    (WorkerActive /\ cancel_at.k >= 0 /\ cancel_at.k < Len(valid_urls))
    => /\ download_cancelled
       /\ idx <= cancel_at.k
       /\ fetch_calls <= cancel_at.k
       /\ successful + failed = idx
       /\ pc \in {"summary", "reset_ui"} => idx = cancel_at.k
       /\ pc = "reset_ui" =>
            /\ Len(summaries) = 1
            /\ summaries[1].cancelled
            /\ summaries[1].successful + summaries[1].failed = cancel_at.k
            /\ summaries[1].remaining = Len(valid_urls) - cancel_at.k

\* cancelled during the retries of item 1 of 2: the summary counts one item
C8_Witness ==
    /\ pc = "reset_ui"
    /\ Len(valid_urls) = 2
    /\ cancel_at = [k |-> 1, in_flight |-> TRUE]
    /\ gets_after_cancel = 2
    /\ summaries[1].cancelled
    /\ summaries[1].successful + summaries[1].failed = 1

\* C9: once the flag is set at most max_retries requests.get calls follow,
\* all for the item in flight when it was set; the worker leaves the loop only
\* at the top of an iteration, and does so at the first one after the flag
\* was set.
C9_Inv ==
    (WorkerActive /\ download_cancelled /\ cancel_at.k >= 0)
    => /\ gets_after_cancel <= MAX_RETRIES
       /\ gets_after_cancel > 0 => cancel_at.in_flight
       /\ InItem => (cancel_at.in_flight /\ idx + 1 = cancel_at.k)
       /\ fetch_calls <= cancel_at.k
C9_Step ==
    /\ (pc' = "summary" /\ pc # "summary") => pc = "poll"
    /\ (download_cancelled /\ pc = "poll" /\ pc' # pc) => pc' = "summary"
    /\ (download_cancelled /\ InItem /\ download_cancelled')
       => pc' \in {"get", "backoff", "fetched", "poll"}
    /\ gets_after_cancel' > gets_after_cancel
       => (idx + 1 = cancel_at.k /\ idx' = idx)
C9_CooperativeCancel == [](C9_Inv) /\ [][C9_Step]_vars

\* cancelled right after the poll of item 1: three more attempts, then the
\* loop is left
C9_Witness ==
    /\ pc = "summary"
    /\ download_cancelled
    /\ gets_after_cancel = MAX_RETRIES
    /\ cancel_at = [k |-> 1, in_flight |-> TRUE]
    /\ idx = 1
    /\ Len(valid_urls) = 2

\* C10: at most one worker thread is alive; a start request made while
\* download_in_progress is true shows the warning and changes nothing else;
\* a worker is started only when the flag is false, and the flag stays true
\* until the worker has emitted its summary.
C10_Inv ==
    /\ workers - finished <= 1
    /\ workers - finished = 1 <=> WorkerActive
    /\ WorkerActive => download_in_progress
    /\ workers = runs
C10_Step ==
    /\ workers' # workers
       => /\ ~download_in_progress
          /\ download_in_progress'
          /\ workers' = workers + 1
          /\ workers = finished
    /\ (download_in_progress /\ notice' = "warning" /\ notice # "warning")
       => UNCHANGED <<download_cancelled, download_in_progress, ui_queue, summaries,
                      files, runs, workers, finished, valid_urls, starting_num, pc,
                      idx, successful, failed, failed_urls, max_retries, attempt,
                      last_exception, result, attempts_log, sleeps, cancel_at,
                      fetch_calls, gets_after_cancel>>
    /\ (download_in_progress /\ notice' # notice) => notice' = "warning"
    /\ (download_in_progress /\ ~download_in_progress')
       => /\ Len(summaries) = 1
          /\ pc = "done"
          /\ workers = finished
C10_SingleWorker == [](C10_Inv) /\ [][C10_Step]_vars

\* a start request was refused during the second run
C10_Witness ==
    /\ notice = "warning"
    /\ download_in_progress
    /\ pc = "backoff"
    /\ runs = 2
    /\ workers - finished = 1

C12_Inv ==
    WorkerActive
    => /\ \A i \in 1..Len(items_log) : items_log[i].num = starting_num + (i - 1)
       /\ \A i, j \in 1..Len(items_log) :
              i < j => items_log[i].num < items_log[j].num
C12_Step ==
    \A n \in DOMAIN files' :
        n \notin DOMAIN files
        => /\ pc = "fetched"
           /\ n = starting_num + idx
           /\ n = Last(items_log).num
C12_OutputIndex == [](C12_Inv) /\ [][C12_Step]_vars

\* the first item failed and the second was written under the next number
C12_Witness ==
    /\ pc = "poll"
    /\ idx = 2
    /\ failed = 1
    /\ successful = 1
    /\ failed_urls[1].url = Url(1)
    /\ starting_num + 1 \in DOMAIN files
    /\ starting_num \notin DOMAIN files

\* C14: a run writes only numbers above every file that is in the directory,
\* never fills a gap, and every file that exists keeps its content.
C14_Inv ==
    WorkerActive
    => /\ \A n \in DOMAIN files :
              n < starting_num \/ \E i \in 1..Len(items_log) : items_log[i].num = n
       /\ \A i \in 1..Len(items_log) : items_log[i].num >= starting_num
C14_Step ==
    /\ \A n \in DOMAIN files : n \in DOMAIN files' /\ files'[n] = files[n]
    /\ \A n \in DOMAIN files' :
           n \notin DOMAIN files => \A m \in DOMAIN files : n > m
    /\ starting_num' # starting_num
       => \/ starting_num' = 0
          \/ \A m \in DOMAIN files : starting_num' > m
C14_NoOverwrite == [](C14_Inv) /\ [][C14_Step]_vars

\* files 1, 2 and 5 existed: the run wrote 6 and 7 and left 3 and 4 empty
C14_Witness ==
    /\ DOMAIN files = {1, 2, 5, 6, 7}
    /\ files[1] = 500 /\ files[2] = 500 /\ files[5] = 500
    /\ files[6] = 100 /\ files[7] = 100
    /\ runs = 1

\* C15: 0 <= successful + failed <= total; every item that is taken up adds
\* one to exactly one counter; after the worker has seen the flag no item is
\* taken up.
C15_Inv ==
    WorkerActive
    => /\ 0 <= successful + failed
       /\ successful + failed <= Len(valid_urls)
       /\ successful + failed = idx
       /\ fetch_calls = IF InItem THEN idx + 1 ELSE idx
C15_Step ==
    /\ (pc = "fetched" /\ pc' # pc)
       => /\ \/ successful' = successful + 1 /\ failed' = failed
             \/ successful' = successful /\ failed' = failed + 1
          /\ idx' = idx + 1
    /\ (pc # "fetched" /\ WorkerActive /\ pc' # "done")
       => (successful' = successful /\ failed' = failed)
    /\ pc \in {"summary", "reset_ui"}
       => items_log' = items_log \/ items_log' = <<>>
C15_Counters == [](C15_Inv) /\ [][C15_Step]_vars

\* the worker has seen the flag after one success; the second item is left
C15_Witness ==
    /\ pc = "summary"
    /\ download_cancelled
    /\ Len(valid_urls) = 2
    /\ successful = 1
    /\ failed = 0
    /\ fetch_calls = 1

C17_Inv ==
    /\ Len(summaries) <= 1
    /\ pc \in {"poll", "get", "backoff", "fetched", "summary"} => summaries = <<>>
    /\ pc = "reset_ui"
       => /\ Len(summaries) = 1
          /\ summaries[1].successful = successful
          /\ summaries[1].failed = failed
          /\ successful + failed = idx
          /\ download_in_progress
          /\ \A i \in 1..Len(ui_queue) : ui_queue[i] = summaries[1]
    /\ (pc = "done" \/ (runs > 0 /\ ~download_in_progress))
       => Len(summaries) = 1
    /\ (runs > 0 /\ ~download_in_progress) => ui_queue = <<>>
    /\ \A i \in 1..Len(ui_queue) :
           ui_queue[i].kind = "reset" => i = Len(ui_queue)
C17_Step ==
    /\ summaries' # summaries
       => \/ summaries' = <<>> /\ ~download_in_progress
          \/ pc = "summary" /\ Len(summaries') = 1 /\ download_in_progress
    /\ pc \in {"reset_ui", "done"} => fetch_calls' = fetch_calls \/ fetch_calls' = 0
C18_Original ==
    (pc = "reset_ui" /\ failed > 0)
    => summaries[1].first_failure = <<failed_urls[1]>>

\* ----------------------------------------------- claims on NumberingSpec
\* C13: for every directory listing the start index is 1 when no name
\* carries an image number and 1 + the largest such number otherwise,
\* whatever the extensions and the gaps. A name carries a number when the
\* pattern image_<digits>.<word characters> occurs in it.
MatchedNumbers(listing) == {e.n : e \in {x \in listing : x.kind # "none"}}
C13_StartIndex ==
    pc = "scanned"
    => /\ call_ret # NoCall
       /\ MatchedNumbers(call_args) = {} => call_ret[1] = 1
       /\ MatchedNumbers(call_args) # {}
          => call_ret[1] = 1 + Max(MatchedNumbers(call_args))

\* image_1.jpg, image_2.png, image_5.gif and a file without a number give 6
C13_Witness ==
    /\ pc = "scanned"
    /\ {e.n : e \in call_args} = {0, 1, 2, 5}
    /\ Cardinality(call_args) = 4
    /\ call_ret = <<6>>

\* ----------------------------------------------- claims on ExtensionSpec
\* the table and the priority list as the specification gives them
TableKeys ==
    {<<"i", "m", "a", "g", "e", "/", "j", "p", "e", "g">>,
     <<"i", "m", "a", "g", "e", "/", "j", "p", "g">>,
     <<"i", "m", "a", "g", "e", "/", "p", "n", "g">>,
     <<"i", "m", "a", "g", "e", "/", "g", "i", "f">>,
     <<"i", "m", "a", "g", "e", "/", "w", "e", "b", "p">>,
     <<"i", "m", "a", "g", "e", "/", "b", "m", "p">>,
     <<"i", "m", "a", "g", "e", "/", "t", "i", "f", "f">>,
     <<"i", "m", "a", "g", "e", "/", "s", "v", "g", "+", "x", "m", "l">>}
TableValue(key) ==
    IF key = <<"i", "m", "a", "g", "e", "/", "j", "p", "e", "g">> THEN <<".", "j", "p", "g">>
    ELSE IF key = <<"i", "m", "a", "g", "e", "/", "j", "p", "g">> THEN <<".", "j", "p", "g">>
    ELSE IF key = <<"i", "m", "a", "g", "e", "/", "p", "n", "g">> THEN <<".", "p", "n", "g">>
    ELSE IF key = <<"i", "m", "a", "g", "e", "/", "g", "i", "f">> THEN <<".", "g", "i", "f">>
    ELSE IF key = <<"i", "m", "a", "g", "e", "/", "w", "e", "b", "p">> THEN <<".", "w", "e", "b", "p">>
    ELSE IF key = <<"i", "m", "a", "g", "e", "/", "b", "m", "p">> THEN <<".", "b", "m", "p">>
    ELSE IF key = <<"i", "m", "a", "g", "e", "/", "t", "i", "f", "f">> THEN <<".", "t", "i", "f", "f">>
    ELSE IF key = <<"i", "m", "a", "g", "e", "/", "s", "v", "g", "+", "x", "m", "l">> THEN <<".", "s", "v", "g">>
    ELSE <<>>
PriorityList == <<<<".", "j", "p", "g">>, <<".", "j", "p", "e", "g">>, <<".", "p", "n", "g">>, <<".", "g", "i", "f">>, <<".", "w", "e", "b", "p">>, <<".", "b", "m", "p">>, <<".", "t", "i", "f", "f">>, <<".", "s", "v", "g">>>>
FirstOccurring(exts) ==
    LET present == {k \in DOMAIN PriorityList : PriorityList[k] \in Range(exts)}
    IN  IF present = {} THEN <<".", "j", "p", "g">>
        ELSE LET k == CHOOSE i \in present : \A j \in present : i <= j
             IN  IF PriorityList[k] = <<".", "j", "p", "e", "g">> THEN <<".", "j", "p", "g">> ELSE PriorityList[k]

\* C19: a content type that is a table key once the parameter is dropped,
\* the blanks are trimmed and the letters are lower-cased gives the mapped
\* extension, whatever the URL.
C19_ContentTypeWins ==
    (pc = "resolved" /\ call_args.base \in TableKeys)
    => call_ret = <<TableValue(call_args.base)>>

\* IMAGE/PNG with a URL that ends in .jpg gives .png
C19_Witness ==
    /\ pc = "resolved"
    /\ call_args.content_type = <<"I", "M", "A", "G", "E", "/", "P", "N", "G">>
    /\ call_args.url = <<"h", "/", "p", "h", "o", "t", "o", "/", "x", ".", "j", "p", "g">>
    /\ call_ret = <<<<".", "p", "n", "g">>>>

\* C20: with a content type that is empty or no table key, the result is the
\* first entry of the priority list that occurs in the lower-cased URL, .jpg
\* for .jpeg, and .jpg when none occurs.
C20_UrlFallback ==
    (pc = "resolved" /\ call_args.base \notin TableKeys)
    => call_ret = <<FirstOccurring(call_args.exts)>>

\* application/octet-stream and a URL with .gif before .png: .png has priority
C20_Witness ==
    /\ pc = "resolved"
    /\ call_args.content_type = <<"a", "p", "p", "l", "i", "c", "a", "t", "i", "o", "n", "/", "o", "c", "t", "e", "t", "-", "s", "t", "r", "e", "a", "m">>
    /\ call_args.url = <<"h", "/", "p", "h", "o", "t", "o", "/", "x", ".", "g", "i", "f", "/", "x", ".", "p", "n", "g">>
    /\ call_ret = <<<<".", "p", "n", "g">>>>

\* -------------------------------------------- claims on Spec, continued
\* C28: the summary says "cancelled" only when an item of the run was left
\* without an attempt.
C28_Original ==
    (pc = "reset_ui" /\ summaries[1].cancelled)
    => successful + failed < Len(valid_urls)

\* C23: the UI side never changes the batch state of a running batch:
\* a cancel request changes only the flag, a refused start request only the
\* message box, and the counters, the totals and the list of failures change
\* only in a step of the worker.
BatchState == <<successful, failed, total_size, total_time, failed_urls>>
C23_Step ==
    /\ pc' = pc => /\ BatchState' = BatchState
                   /\ UNCHANGED <<idx, files, valid_urls, starting_num>>
    /\ (download_cancelled' /\ ~download_cancelled)
       => /\ BatchState' = BatchState
          /\ UNCHANGED <<pc, idx, files, valid_urls, starting_num, download_in_progress,
                         ui_queue, notice, summaries, runs, workers, finished>>
    /\ (notice' = "warning" /\ notice # "warning")
       => /\ BatchState' = BatchState
          /\ UNCHANGED <<pc, idx, files, valid_urls, starting_num, download_in_progress,
                         download_cancelled, ui_queue, summaries, runs, workers,
                         finished>>
    /\ BatchState' # BatchState
       => \/ pc = "fetched" /\ pc' = "poll"
          \/ pc = "reset_ui" /\ pc' = "done"
          \/ pc \in {"idle", "done"} /\ pc' = "poll"
C23_UiLeavesBatchState == [][C23_Step]_vars

\* a cancel request and a refused start request were made after item 1
C23_Witness ==
    /\ pc = "poll"
    /\ idx = 1
    /\ successful = 1
    /\ total_size = 100
    /\ total_time = ItemSeconds
    /\ download_cancelled
    /\ cancel_at = [k |-> 1, in_flight |-> FALSE]
    /\ notice = "warning"

\* ----------------------------------------------------- claims on FlagSpec
\* C29: the flag is cleared when a run is accepted, whatever it was before;
\* at the first poll it is set only if Cancel was pressed after the
\* acceptance, and a run without such a request takes up all its items and
\* reports a complete run.
C29_Inv ==
    /\ (pc = "poll" /\ cancel_at = NotCancelled) => ~download_cancelled
    /\ (pc \in {"summary", "reset_ui"} /\ cancel_at = NotCancelled)
       => /\ idx = Len(valid_urls)
          /\ Len(items_log) = Len(valid_urls)
          /\ successful + failed = Len(valid_urls)
C29_Step ==
    runs' = runs + 1 => (~download_cancelled' /\ pc' = "poll" /\ idx' = 0)
C29_NoLeak == [](C29_Inv) /\ [][C29_Step]_vars

\* the second run was accepted with the flag set and has attempted both items
C29_Witness ==
    /\ runs = 2
    /\ flag_was_set
    /\ cancel_at = NotCancelled
    /\ pc = "reset_ui"
    /\ Len(valid_urls) = 2
    /\ successful + failed = 2
    /\ ~summaries[1].cancelled

\* C30: a start request that is refused leaves the flag as it is, and nothing
\* else clears the flag while the run is in progress; the run stops at the
\* item boundary that follows the cancel request.
C30_Inv ==
    /\ (refused_while_set /\ download_in_progress) => download_cancelled
    /\ (refused_while_set /\ WorkerActive /\ cancel_at # NotCancelled)
       => /\ fetch_calls <= cancel_at.k
          /\ idx <= cancel_at.k
          /\ pc \in {"summary", "reset_ui"} => idx = cancel_at.k
          /\ pc = "reset_ui" => summaries[1].cancelled
C30_Step ==
    /\ (download_in_progress /\ download_in_progress' /\ download_cancelled)
       => download_cancelled'
    /\ ((notice' = "warning" /\ notice # "warning") \/ (refused_while_set' /\ ~refused_while_set))
       => /\ download_cancelled' = download_cancelled
          /\ UNCHANGED <<pc, idx, successful, failed, files, fetch_calls>>
C30_RefusalKeepsCancel == [](C30_Inv) /\ [][C30_Step]_vars

\* Cancel during item 1 of 2, then a refused start: the run stopped after item 1
C30_Witness ==
    /\ refused_while_set
    /\ pc = "reset_ui"
    /\ cancel_at = [k |-> 1, in_flight |-> TRUE]
    /\ Len(valid_urls) = 2
    /\ summaries[1].cancelled
    /\ summaries[1].remaining = 1
    /\ fetch_calls = 1

\* ---------------------------------------------------- claims on RunSpec
\* the seconds that the first k fetches of the scenario take
RECURSIVE SecondsOf(_)
SecondsOf(k) == IF k = 0 THEN 0 ELSE SecondsOf(k - 1) + call_args.items[k].seconds

\* C25: after each attempted item the remaining-time estimate is
\* (elapsed since the batch started / items completed) * (total - completed):
\* it exists as soon as one item is completed, not before, and it is zero
\* after the last item. Five of ten items in five seconds give five seconds.
C25_Eta ==
    WorkerActive =>
       /\ idx = 0 => remaining_time = Estimating
       /\ idx > 0 =>
            /\ remaining_time # Estimating
            /\ remaining_time[2] > 0
            /\ remaining_time[1] * idx =
                 remaining_time[2] * SecondsOf(idx) * (Len(valid_urls) - idx)
            /\ idx = Len(valid_urls) => remaining_time = Zero
       /\ (call_args = TenRows /\ idx = 5) => remaining_time = <<5, 1>>
C25_Witness ==
    /\ call_args = TenRows
    /\ pc = "poll"
    /\ idx = 5
    /\ elapsed_total_time = 5
    /\ remaining_time = <<5, 1>>

\* row k of the run is one of the items counted as successful: it has been
\* attempted and is not in the list of failures
Written(k) ==
    /\ k <= idx
    /\ \A j \in DOMAIN failed_urls : failed_urls[j].url # valid_urls[k]
\* bytes and seconds of the successful items among the first k rows
RECURSIVE WrittenBytes(_)
WrittenBytes(k) ==
    IF k = 0 THEN 0
    ELSE WrittenBytes(k - 1) +
         (IF Written(k) THEN Last(call_args.items[k].script).len ELSE 0)
RECURSIVE WrittenSeconds(_)
WrittenSeconds(k) ==
    IF k = 0 THEN 0
    ELSE WrittenSeconds(k - 1) + (IF Written(k) THEN call_args.items[k].seconds ELSE 0)

\* C24: the mean speed shown after a successful item is
\* (cumulative bytes * 8) / (cumulative seconds * 1,000,000) over the
\* successful items so far, and 0 while the cumulative seconds are 0.
C24_Original ==
    (pc = "poll" /\ idx > 0 /\ Written(idx)) =>
        IF WrittenSeconds(idx) = 0 THEN mean_speed = Zero
        ELSE mean_speed = Frac(WrittenBytes(idx) * 8, WrittenSeconds(idx) * 1000000)

\* an entry of the column that names something to fetch
IsIdentifier(e) == e.kind = "str" /\ \E i \in DOMAIN e.text : e.text[i] \notin {" ", "\t"}
\* the rows of the scenario's CSV, when it has a URL column
HasUrlColumn(s) ==
    DOMAIN s.data \cap {"image_url", "IMAGE_URL", "Image_URL", "url", "URL"} # {}
\* the URL column: the first of the five names that the CSV has
FirstNamed(s) ==
    IF "image_url" \in DOMAIN s.data THEN "image_url"
    ELSE IF "IMAGE_URL" \in DOMAIN s.data THEN "IMAGE_URL"
    ELSE IF "Image_URL" \in DOMAIN s.data THEN "Image_URL"
    ELSE IF "url" \in DOMAIN s.data THEN "url"
    ELSE "URL"
RowsOf(s) == s.data[FirstNamed(s)]
Identifiers(s) == {i \in DOMAIN RowsOf(s) : IsIdentifier(RowsOf(s)[i])}
\* the pre-flight conditions that the claim lists
PreflightDefect(s) ==
    \/ ~s.csv_path
    \/ ~s.download_path
    \/ ~s.is_dir
    \/ ~s.writable
    \/ s.disk = "low"
    \/ ~s.readable
    \/ ~HasUrlColumn(s)
    \/ Identifiers(s) = {}
    \/ Identifiers(s) # DOMAIN RowsOf(s) /\ ~s.answer
NothingStarted ==
    /\ workers = 0
    /\ runs = 0
    /\ pc = "idle"
    /\ fetch_calls = 0
    /\ items_log = <<>>
    /\ files = call_args.dir
    /\ ~download_in_progress
    /\ ~download_cancelled

\* C26: when a pre-flight check fails (among them: the destination is not
\* writable) no worker is started, nothing is fetched, nothing is written,
\* and the in-progress guard and the cancel flag keep their values.
C26_Original == (call_ret # NoCall /\ PreflightDefect(call_args)) => NothingStarted

\* the number of identifiers in the rows before row i
Before(s, i) == Cardinality({j \in Identifiers(s) : j < i})
\* an item of the run is row r of the CSV, an identifier, with the number
\* that its position among the identifiers gives
IsKthIdentifier(item, num) ==
    LET r == item.i + 1 IN
    /\ r \in Identifiers(call_args)
    /\ RowsOf(call_args)[r].text = item.url
    /\ num = starting_num + Before(call_args, r)

\* C22: missing, empty and blank entries of the URL column are removed
\* before the run. The skipped count is the number of entries minus the
\* number of identifiers; only identifiers are fetched or counted as
\* failures; the k-th identifier (from 0) gets the number starting_num + k,
\* however many skipped entries precede it.
C22_Filtered ==
    /\ (call_ret # NoCall /\ call_ret[1].skipped # <<>>) =>
          call_ret[1].skipped[1] =
             Len(RowsOf(call_args)) - Cardinality(Identifiers(call_args))
    /\ WorkerActive =>
          /\ Len(valid_urls) = Cardinality(Identifiers(call_args))
          /\ \A k \in DOMAIN valid_urls :
                IsKthIdentifier(valid_urls[k], starting_num + k - 1)
          /\ \A k \in DOMAIN items_log :
                IsKthIdentifier(items_log[k].url, items_log[k].num)
          /\ Len(items_log) = fetch_calls
          /\ \A k \in DOMAIN failed_urls :
                failed_urls[k].url.i + 1 \in Identifiers(call_args)
          /\ successful + failed <= Cardinality(Identifiers(call_args))
          /\ (pc = "reset_ui" /\ ~summaries[Len(summaries)].cancelled) =>
                successful + failed = Cardinality(Identifiers(call_args))
C22_Witness ==
    /\ pc = "reset_ui"
    /\ RowsOf(call_args) = <<NaN, Str(<<" ", "\t">>), Str(UrlA)>>
    /\ call_ret[1].skipped = <<2>>
    /\ items_log = <<[url |-> [i |-> 2, url |-> UrlA], num |-> 1]>>
    /\ successful = 1
    /\ failed = 0
    /\ DOMAIN files = {1}

\* the second run of the scenario, in the directory picked after the first,
\* has ended
SecondRunEnded == Len(call_ret) = 3 /\ pc = "reset_ui" /\ call_ret[3].dir = <<>>
FirstRun == call_ret[2]

\* C21: two runs, one after the other, that start from an empty directory
\* with the same CSV, the same outcome of every fetch attempt and of every
\* write, and the same click on Cancel, leave the same files (names,
\* contents, numbers counted from 1) and report the same counts.
C21_Deterministic ==
    (SecondRunEnded /\ call_args.dir = <<>>) =>
        /\ files = FirstRun.files
        /\ names = FirstRun.names
        /\ summaries[1] = FirstRun.summary
        /\ starting_num = 1
        /\ DOMAIN files \subseteq 1..Len(valid_urls)
        /\ \A n \in DOMAIN files :
              /\ (n <= idx /\ \A j \in DOMAIN failed_urls :
                                failed_urls[j].url # valid_urls[n])
                 => Last(call_args.items[n].script) = Response(200, files[n])
              /\ Len(names[n]) > Len(ImagePrefix \o Decimal(n))
              /\ SubSeq(names[n], 1, Len(ImagePrefix \o Decimal(n))) =
                    ImagePrefix \o Decimal(n)
C21_Witness ==
    /\ SecondRunEnded
    /\ call_args.dir = <<>>
    /\ Len(valid_urls) = 2
    /\ DOMAIN files = {2}
    /\ files = FirstRun.files
    /\ summaries[1].successful = 1
    /\ summaries[1].failed = 1
    /\ FirstRun.summary.failed = 1

\* the extensions that the resolver can return
ResolverExtensions ==
    {<<".", "j", "p", "g">>, <<".", "p", "n", "g">>, <<".", "g", "i", "f">>,
     <<".", "w", "e", "b", "p">>, <<".", "b", "m", "p">>, <<".", "t", "i", "f", "f">>,
     <<".", "s", "v", "g">>}
\* the decimal numeral of n without leading zeros, most significant digit first
IsNumeralOf(digs, n) ==
    /\ digs # <<>>
    /\ \A i \in DOMAIN digs : digs[i] \in {"0", "1", "2", "3", "4", "5", "6", "7", "8", "9"}
    /\ (Len(digs) > 1 => digs[1] # "0")
    /\ IntOf(digs) = n
\* the files that the run under way has written
WrittenNumbers == {n \in DOMAIN names : n >= starting_num}

\* C27: every file that a run writes for the item with number N is named
\* image_<N><ext>, N in decimal and ext one of the resolver's extensions;
\* the pattern of the numbering scan matches the name and the number parsed
\* from the match is N, so that the scan of the directory gives the largest
\* number plus one.
C27_RoundTrip ==
    WorkerActive =>
        /\ \A n \in WrittenNumbers :
              /\ \E k \in DOMAIN items_log : items_log[k].num = n
              /\ \E ext \in ResolverExtensions : \E digs \in {Decimal(n)} :
                    /\ IsNumeralOf(digs, n)
                    /\ names[n] = <<"i", "m", "a", "g", "e", "_">> \o digs \o ext
              /\ Search(names[n], 1) # <<>>
              /\ IntOf(Search(names[n], 1)[1]) = n
        /\ DOMAIN names = DOMAIN files
        /\ (WrittenNumbers # {} /\ pc = "reset_ui") =>
              ScanStartingNum(Range(names)) = Max(WrittenNumbers) + 1
C27_Witness ==
    /\ call_args = TenRows
    /\ pc = "reset_ui"
    /\ WrittenNumbers = 1..10
    /\ names[10] = <<"i", "m", "a", "g", "e", "_", "1", "0", ".", "j", "p", "g">>
    /\ names[3] = <<"i", "m", "a", "g", "e", "_", "3", ".", "p", "n", "g">>
    /\ Search(names[10], 1) = <<<<"1", "0">>>>

\* C32: at every point of a run the byte total and the fetch-time total are
\* the sums over exactly the items counted as successful so far; an item
\* counted as failed, also one whose write failed, contributes nothing.
C32_Original ==
    WorkerActive =>
        /\ total_size = WrittenBytes(idx)
        /\ total_time = WrittenSeconds(idx)
        /\ successful = Cardinality({k \in 1..idx : Written(k)})

\* the directory as it was when the run under way started
DirAtStart == Last(call_ret).dir
\* the number of the item at position k (from 1) of the run
NumberOf(k) == starting_num + k - 1

\* C33: for every attempted item the file with the item's number was created
\* by the run if and only if the item was counted as successful, and its
\* content is then the fetched payload; an unattempted item leaves no file,
\* and the files that were there before are left alone.
C33_Original ==
    WorkerActive =>
        /\ \A k \in DOMAIN valid_urls :
              /\ NumberOf(k) \notin DOMAIN DirAtStart
              /\ NumberOf(k) \in DOMAIN files <=> Written(k)
              /\ Written(k) => files[NumberOf(k)] = Last(call_args.items[k].script).len
        /\ \A n \in DOMAIN files :
              \/ n \in DOMAIN DirAtStart /\ files[n] = DirAtStart[n]
              \/ \E k \in DOMAIN valid_urls : n = NumberOf(k)

\* ------------------------------------- claims on NumberingSpec, continued
\* the numbers of the entries whose whole name is image_<digits>.<word
\* characters>
WholeNameNumbers(listing) == {e.n : e \in {x \in listing : x.kind = "whole"}}

\* C34: a name contributes to the start index only if the whole name has the
\* form image_<digits>.<word characters>; names with text before image_ or
\* after the extension are ignored like the names without a number.
C34_Original ==
    pc = "scanned"
    => /\ WholeNameNumbers(call_args) = {} => call_ret[1] = 1
       /\ WholeNameNumbers(call_args) # {}
          => call_ret[1] = 1 + Max(WholeNameNumbers(call_args))
\* what holds of the names of the claim that the scan does ignore
C34_IgnoredNames ==
    (pc = "scanned" /\ \A e \in call_args : e.kind = "none") => call_ret[1] = 1

\* ------------------------------------------ claims on RunSpec, continued
\* the identifiers of the rows, in the order of the rows
RECURSIVE IdentifierTexts(_)
IdentifierTexts(rows) ==
    IF rows = <<>> THEN <<>>
    ELSE (IF IsIdentifier(Head(rows)) THEN <<Head(rows).text>> ELSE <<>>)
         \o IdentifierTexts(Tail(rows))
\* the start request got as far as reading the CSV
CsvRead(s) ==
    s.csv_path /\ s.download_path /\ s.is_dir /\ s.disk # "low" /\ s.readable

\* C36: the URLs of a run are read from the first of image_url, IMAGE_URL,
\* Image_URL, url, URL that is a column of the CSV, whatever other columns
\* there are; when the CSV has none of the five the start request ends with
\* an error and no run begins.
C36_ColumnPriority ==
    /\ WorkerActive =>
          /\ HasUrlColumn(call_args)
          /\ [k \in DOMAIN valid_urls |-> valid_urls[k].url] =
                IdentifierTexts(call_args.data[FirstNamed(call_args)])
    /\ (call_ret # NoCall /\ CsvRead(call_args) /\ ~HasUrlColumn(call_args)) =>
          /\ call_ret[1].check = "column"
          /\ notice = "error"
          /\ NothingStarted
C36_Witness ==
    /\ pc = "reset_ui"
    /\ DOMAIN call_args.data = {"url", "image_url"}
    /\ call_args.data["url"] = <<Str(UrlA)>>
    /\ call_args.data["image_url"] = <<Str(UrlB)>>
    /\ valid_urls = <<[i |-> 0, url |-> UrlB]>>
C36_RefusedWitness ==
    /\ call_ret # NoCall
    /\ DOMAIN call_args.data = {"notes"}
    /\ CsvRead(call_args)
    /\ notice = "error"
    /\ workers = 0

\* the second run of the scenario is under way in the directory that the
\* first run left
SecondRunSameDir ==
    /\ Len(call_ret) = 3
    /\ WorkerActive
    /\ call_ret[3].dir = call_ret[2].files

\* C31: when the first run gave the numbers s..s+k-1 to the k items it
\* attempted, the second run on the same directory starts at s+k or later,
\* also when the last items attempted by the first run left no file.
C31_Original ==
    SecondRunSameDir => starting_num >= call_ret[2].start + call_ret[2].attempted
\* what holds instead: the second run starts after every file that the
\* first run left, and no file is written twice
C31_AfterEveryFile ==
    SecondRunSameDir =>
        /\ \A n \in DOMAIN call_ret[2].files : starting_num > n
        /\ \A n \in DOMAIN call_ret[2].files : files[n] = call_ret[2].files[n]

====
